---- MODULE Spec2Model ----
(***************************************************************************)
(* PiRadio (src/PiRadio.py): a rotary encoder and a push button, each      *)
(* polled by its own thread, drive the volume, the track and the on/off    *)
(* state of an MPD player and the colour of an RGB LED.                    *)
(*                                                                         *)
(* The three threads (the main thread running PiRadio.__init__, the        *)
(* RotatorThread and the ButtonThread) are modelled statement by           *)
(* statement: pc[t] is the source line thread t executes next.  The code   *)
(* takes no lock, so every read and write of a shared attribute is a step  *)
(* of its own.  The program is started with or without the argument        *)
(* debug (DEBUG); the clock is read in ms since a point shortly before     *)
(* the start, and time.time() is the double nearest to that many seconds.  *)
(***************************************************************************)
EXTENDS Integers, Sequences, FiniteSets, TLC

(***************************************************************************)
(* Python floats.  self.last_volume is an IEEE-754 double.  Every volume   *)
(* the program computes is a multiple of 2^-55 below 2^20 in magnitude,    *)
(* so a double is kept as a sign and a magnitude counted in units of       *)
(* 2^-55, the magnitude as five little-endian limbs of 15 bits (TLC's      *)
(* integers are 32 bits wide).  The readings of the clock are kept in      *)
(* units of 2^-75 and seven limbs.  Every operation rounds to 53           *)
(* significant bits, ties to even, as the hardware does.                   *)
(***************************************************************************)
LimbBits == 10 + 5
LimbBase == 2^LimbBits
NumLimbs == 2 + 3
UnitBits == 50 + 5
TimeLimbs == 2 + 5
MantissaBits == 50 + 3

RECURSIVE Normalize(_, _, _)
\* Carry (or borrow) propagation over limbs i..NumLimbs of s.
Normalize(s, i, c) ==
    IF i > Len(s) THEN <<>>
    ELSE LET t == s[i] + c
         IN  <<t % LimbBase>> \o Normalize(s, i + 1, t \div LimbBase)

MagZero == [i \in 1..NumLimbs |-> 0]
MagAdd(a, b) == Normalize([i \in 1..Len(a) |-> a[i] + b[i]], 1, 0)
\* a - b, for a >= b
MagSub(a, b) == Normalize([i \in 1..Len(a) |-> a[i] - b[i]], 1, 0)
\* a * k, for 0 <= k < 2^15
MagMul(a, k) == Normalize([i \in 1..Len(a) |-> a[i] * k], 1, 0)
\* 2^k as a magnitude of n limbs
MagPow2(k, n) ==
    Normalize([i \in 1..n |-> IF i = (k \div LimbBits) + 1
                              THEN 2^(k % LimbBits) ELSE 0], 1, 0)
\* the lowest k bits of a
MagLowBits(a, k) ==
    Normalize([i \in 1..Len(a) |->
                 IF i <= k \div LimbBits THEN a[i]
                 ELSE IF i = (k \div LimbBits) + 1 THEN a[i] % 2^(k % LimbBits)
                 ELSE 0], 1, 0)
\* bit k of a
MagBit(a, k) == (a[(k \div LimbBits) + 1] \div 2^(k % LimbBits)) % 2

RECURSIVE MagLessFrom(_, _, _)
MagLessFrom(a, b, i) ==
    IF i = 0 THEN FALSE
    ELSE IF a[i] # b[i] THEN a[i] < b[i]
    ELSE MagLessFrom(a, b, i - 1)
MagLess(a, b) == MagLessFrom(a, b, Len(a))

RECURSIVE IntBitLen(_)
IntBitLen(n) == IF n = 0 THEN 0 ELSE 1 + IntBitLen(n \div 2)

RECURSIVE MagBitLenFrom(_, _)
MagBitLenFrom(a, i) ==
    IF i = 0 THEN 0
    ELSE IF a[i] # 0 THEN LimbBits * (i - 1) + IntBitLen(a[i])
    ELSE MagBitLenFrom(a, i - 1)
MagBitLen(a) == MagBitLenFrom(a, Len(a))

\* The magnitude a (exact) rounded to a double: 53 significant bits, round
\* to nearest, ties to even.
RoundToDouble(a) ==
    LET s == MagBitLen(a) - MantissaBits
    IN  IF s <= 0 THEN a
        ELSE LET rem  == MagLowBits(a, s)
                 half == MagPow2(s - 1, Len(a))
                 down == MagSub(a, rem)
                 up   == MagAdd(down, MagPow2(s, Len(a)))
             IN  IF MagLess(half, rem) \/ (rem = half /\ MagBit(a, s) = 1)
                 THEN up ELSE down

\* float(n) for an integer n
FloatOfInt(n) ==
    LET m == IF n < 0 THEN -n ELSE n
    IN  [neg |-> n < 0,
         mag |-> Normalize([MagZero EXCEPT ![4] = m * 2^(UnitBits - 3 * LimbBits)], 1, 0)]

\* 0.0 and 100.0, the limits of the volume (line 98)
FloatZero == FloatOfInt(0)
FloatHundred == FloatOfInt(100)

\* x + y on doubles
FloatAdd(x, y) ==
    IF x.neg = y.neg
    THEN [neg |-> x.neg, mag |-> RoundToDouble(MagAdd(x.mag, y.mag))]
    ELSE IF MagLess(x.mag, y.mag)
         THEN [neg |-> y.neg, mag |-> RoundToDouble(MagSub(y.mag, x.mag))]
         ELSE IF x.mag = y.mag
              THEN [neg |-> FALSE, mag |-> MagSub(x.mag, y.mag)]
              ELSE [neg |-> x.neg, mag |-> RoundToDouble(MagSub(x.mag, y.mag))]

\* n * f for an integer n, |n| < 2^15, and a double f, |n * f| < 2^20
FloatMulInt(n, f) ==
    LET m == IF n < 0 THEN -n ELSE n
    IN  IF m = 0 THEN [neg |-> FALSE, mag |-> MagMul(f.mag, 0)]
        ELSE [neg |-> (n < 0) # f.neg, mag |-> RoundToDouble(MagMul(f.mag, m))]

\* x < y on doubles
FloatLess(x, y) ==
    IF x.neg # y.neg
    THEN x.neg /\ (MagBitLen(x.mag) > 0 \/ MagBitLen(y.mag) > 0)
    ELSE IF x.neg THEN MagLess(y.mag, x.mag)
    ELSE MagLess(x.mag, y.mag)

\* Python's min and max of two numbers
FloatMin(x, y) == IF FloatLess(y, x) THEN y ELSE x
FloatMax(x, y) == IF FloatLess(x, y) THEN y ELSE x

\* x - y on doubles
FloatSub(x, y) == FloatAdd(x, [y EXCEPT !.neg = ~y.neg])

\* int(x): truncation toward zero
IntOfFloat(x) ==
    LET q == (x.mag[4] \div 2^(UnitBits - 3 * LimbBits))
             + x.mag[5] * 2^(4 * LimbBits - UnitBits)
    IN  IF x.neg THEN -q ELSE q

(***************************************************************************)
(* Program constants (src/PiRadio.py, lines 22-37).                        *)
(***************************************************************************)
COLOR_VOLUME == <<100, 0, 0>>
COLOR_TRACKS == <<0, 100, 0>>
COLOR_OFF == <<0, 0, 0>>
INITIAL_VOLUME == 80
\* 0.2 as a double: 0x1999999999999A * 2^-55
VOLUME_FACTOR == [neg |-> FALSE, mag |-> <<6554, 13107, 26214, 204, 0>>]
LONG_PRESS_DURATION == 1200
TRACK_ROTATION_THRESHOLD == 20
\* time.sleep(0.01), in ms
POLL_INTERVAL == 10

Modes == {"VOLUME", "TRACKS", "OFF"}
Threads == {"main", "rot", "btn"}

(***************************************************************************)
(* Bounds and inputs of the environment.  Several environments drive the   *)
(* same program: Spec (both inputs and the interrupt, few of each),        *)
(* SpecRotate (more encoder readings, large and small), SpecButton (many   *)
(* polls of the button with fine timing, the encoder at rest) and SpecFair *)
(* (fair scheduling, with enough readings and polls for each poller to     *)
(* call a handler twice after the interrupt, were its loop to go on).      *)
(***************************************************************************)
\* non-zero encoder readings delivered in one run
MaxRotations == 1
RotateMaxRotations == 2
FairMaxRotations == 2
\* iterations of the button loop in one run
MaxPolls == 3
RotateMaxPolls == 2
FairMaxPolls == 4
ButtonMaxPolls == 7
FrameMaxPolls == 5
\* readings RotaryEncoder.get_delta() returns
Deltas == {-1, 25}
RotateDeltas == {-500, 20, 499}
FrameDeltas == {TRACK_ROTATION_THRESHOLD, 25}
FairDeltas == {25}
\* time from one poll of the button to the next: the sleep of 10 ms, or a
\* longer time (a delayed poll, or many polls that found nothing new)
SleepMs == {LONG_PRESS_DURATION + POLL_INTERVAL}
RotateSleepMs == {LONG_PRESS_DURATION + POLL_INTERVAL}
ButtonSleepMs == {POLL_INTERVAL, LONG_PRESS_DURATION}

VARIABLES
    \* PiRadio attributes; playback is the state of the MPD connection
    mode, last_volume, last_track_rotation, led, playback,
    \* threads: next source line, return line of adapt_led, exception raised
    pc, ret, exc,
    \* RotatorThread / ButtonThread attribute
    stop_requested,
    \* the module's DEBUG flag
    DEBUG,
    \* locals: rotator_changed(delta), adapt_led (colors, f), ButtonThread.run
    delta, colors, f,
    sw_state, last_state, long_press_registered, time_of_press,
    \* environment: the switch, the clock (ms), readings and polls used up
    switch, now, rotations, polls,
    \* observation: commands sent by each thread's current handler call, the
    \* last play/stop sent, the last LED command
    callCmds, lastPlayback, lastLed,
    \* observation of the rotator's current call: branch taken, values at
    \* entry, the modes its tests of lines 95 and 104 read
    rotBranch, old_volume, old_rotation, modesRead,
    \* observation of all VOLUME-branch calls: sum of the deltas, the exact
    \* step-by-step clamped volume in fifths, whether a partial sum left [0,100]
    sumDelta, stepFifths, leftRange,
    \* observation of the rotator's loop: the non-zero values get_delta
    \* returned and the arguments rotator_changed was called with, in order
    readings, delivered,
    \* observation of the button's handler calls: current and previous call
    btnCall, prevBtnCall,
    \* observation of the stop: handler calls each poller began after its
    \* stop was requested
    callsAfterStop,
    \* observation of the press: the long-press calls since the physical
    \* press began, what the poll that saw its release did; the time the
    \* poller saw the rising edge and the long-press and release calls since
    lpSincePress, releaseEvent,
    risingAt, lpSinceRise, relSinceRise

prog == <<mode, last_volume, last_track_rotation, led, playback>>
ctrl == <<pc, ret, exc, stop_requested>>
locals == <<delta, colors, f>>
btnLocals == <<sw_state, last_state, long_press_registered, time_of_press>>
env == <<switch, now, rotations, polls>>
obsCmds == <<callCmds, lastPlayback, lastLed>>
obsRot == <<rotBranch, old_volume, old_rotation, modesRead, sumDelta,
            stepFifths, leftRange, readings, delivered>>
obsBtn == <<btnCall, prevBtnCall, callsAfterStop>>
obsPress == <<lpSincePress, releaseEvent, risingAt,
              lpSinceRise, relSinceRise>>
vars == <<prog, ctrl, DEBUG, locals, btnLocals, env, obsCmds, obsRot, obsBtn, obsPress>>

Goto(t, l) == pc' = [pc EXCEPT ![t] = l]
Raise(t, e) == pc' = [pc EXCEPT ![t] = "raised"] /\ exc' = [exc EXCEPT ![t] = e]

\* A thread was ended by a command that the player or the LED rejected.
Failed(t) == exc[t] \in {"CommandError", "IOError"}
\* A command as the player or the LED receives it, with the mode and the last
\* play/stop at the moment it is sent, and whether a command had failed in
\* some thread before.
Cmd(op, arg) ==
    [op |-> op, arg |-> arg, mode |-> mode, playback |-> lastPlayback,
     afterFailure |-> \E t \in Threads : Failed(t)]
PlayerOps == {"setvol", "play", "stop", "next", "previous"}
LedOps == {"set", "fade"}
Send(t, c) == callCmds' = [callCmds EXCEPT ![t] = Append(@, c)]

\* The count of the handler calls poller t began after its stop was
\* requested, when it begins one now.
CountAfterStop(t) ==
    [callsAfterStop EXCEPT ![t] = @ + (IF stop_requested[t] THEN 1 ELSE 0)]

NoCall == [handler |-> "none", old_mode |-> "VOLUME", new_mode |-> "VOLUME",
           cmds |-> <<>>, done |-> TRUE]

Init ==
    \* lines 47-63: the attributes, then setvol(80) and play()
    /\ mode = "VOLUME"
    /\ last_volume = FloatOfInt(INITIAL_VOLUME)
    /\ last_track_rotation = 0
    /\ led = FALSE
    \* line 61: self.playback.connect("localhost", 6600)
    /\ playback = "connected"
    /\ pc = [t \in Threads |-> IF t = "main" THEN "l67" ELSE "unstarted"]
    /\ ret = [t \in Threads |-> "none"]
    /\ exc = [t \in Threads |-> "none"]
    /\ stop_requested = [t \in {"rot", "btn"} |-> FALSE]
    \* lines 40, 236-237: True when the program is started with the
    \* argument "debug"
    /\ DEBUG \in BOOLEAN
    /\ delta = 0
    /\ colors = [t \in Threads |-> <<>>]
    /\ f = [t \in Threads |-> "unbound"]
    /\ sw_state = 0
    /\ last_state = 0
    /\ long_press_registered = FALSE
    /\ time_of_press = -1
    /\ switch = 0
    /\ now = 1
    /\ rotations = 0
    /\ polls = 0
    /\ callCmds = [t \in Threads |->
                     IF t = "main"
                     THEN <<[op |-> "setvol", arg |-> <<INITIAL_VOLUME>>,
                             mode |-> "VOLUME", playback |-> "none",
                             afterFailure |-> FALSE],
                            [op |-> "play", arg |-> <<>>,
                             mode |-> "VOLUME", playback |-> "none",
                             afterFailure |-> FALSE]>>
                     ELSE <<>>]
    /\ lastPlayback = "play"
    /\ lastLed = "none"
    /\ rotBranch = "none"
    /\ old_volume = FloatOfInt(INITIAL_VOLUME)
    /\ old_rotation = 0
    /\ modesRead = <<>>
    /\ sumDelta = 0
    /\ stepFifths = 5 * INITIAL_VOLUME
    /\ leftRange = FALSE
    /\ readings = <<>>
    /\ delivered = <<>>
    /\ btnCall = NoCall
    /\ prevBtnCall = NoCall
    /\ callsAfterStop = [t \in {"rot", "btn"} |-> 0]
    /\ lpSincePress = 0
    /\ releaseEvent = "none"
    /\ risingAt = -1
    /\ lpSinceRise = 0
    /\ relSinceRise = 0

(***************************************************************************)
(* The computations of the handlers, as operators.                         *)
(***************************************************************************)
Abs(n) == IF n < 0 THEN -n ELSE n
\* math.copysign(m, x) for an integer x
CopySign(m, x) == IF x < 0 THEN -m ELSE m

\* (faulty variant: the factor forgotten)
AddDeltaUnscaled(v, d) == FloatAdd(v, FloatOfInt(d))
\* line 96: self.last_volume += (delta * VOLUME_FACTOR)
AddDelta(v, d) == FloatAdd(v, FloatMulInt(d, VOLUME_FACTOR))
\* (faulty variant: the lower bound forgotten)
ClampUpperOnly(v) == FloatMin(FloatHundred, v)
\* line 98: min(100, max(0, self.last_volume))
Clamp(v) == FloatMin(FloatHundred, FloatMax(FloatZero, v))
\* (faulty variant: round(x) instead of int(x), for x >= 0: to the nearest integer,
\* ties to even)
SetvolArgRounded(v) ==
    LET n     == IntOfFloat(v)
        twice == MagMul(v.mag, 2)
        mid   == FloatOfInt(2 * n + 1).mag
    IN  IF MagLess(mid, twice) \/ (mid = twice /\ n % 2 = 1) THEN n + 1 ELSE n
\* line 101: the argument of setvol
SetvolArg(v) == IntOfFloat(v)
\* (faulty variant: a plain else instead of the elif)
ElifAlways(m) == TRUE
\* line 104: elif self.mode == "TRACKS"
ElifTracks(m) == m = "TRACKS"
\* (faulty variant: >= instead of >)
TrackChangeInclusive(acc) == Abs(acc) >= TRACK_ROTATION_THRESHOLD
\* line 108: abs(self.last_track_rotation) > TRACK_ROTATION_THRESHOLD
TrackChange(acc) == Abs(acc) > TRACK_ROTATION_THRESHOLD
\* lines 109-116: the command of a track change
TrackCommand(acc) == IF CopySign(1, acc) < 0 THEN "previous" ELSE "next"
\* (faulty variant: a release while OFF leaves the radio off)
ReleasedModeKeepOff(m) ==
    IF m = "VOLUME" THEN "TRACKS" ELSE IF m = "TRACKS" THEN "VOLUME" ELSE m
\* (faulty variant: a misspelt mode string)
ReleasedModeTypo(m) == IF m = "VOLUME" THEN "TRACK" ELSE "VOLUME"
\* lines 123-128: the mode after a button release
ReleasedMode(m) == IF m = "VOLUME" THEN "TRACKS" ELSE "VOLUME"
\* lines 135-141: the mode after a long press
LongPressMode(m) == IF m = "OFF" THEN "VOLUME" ELSE "OFF"
\* (faulty variant: stop() in both branches)
LongPressCommandStop(m) == "stop"
\* (faulty variant: play() in both branches)
LongPressCommandPlay(m) == "play"
\* lines 139, 144: the player command of a long press that found mode m
LongPressCommand(m) == IF m = "OFF" THEN "play" ELSE "stop"
\* lines 155-158: the LED method chosen in mode m
LedMethod(m) == IF m = "OFF" THEN "set" ELSE "fade"
\* (faulty variant: the flag is never looked at)
LoopContinuesAlways(stop) == TRUE
\* lines 178, 208: while not self.stop_requested
LoopContinues(stop) == ~stop
\* (faulty variant: the release after a long press counts too)
ReleaseCountsAlways(lpr) == TRUE
\* line 217: if not long_press_registered
ReleaseCounts(lpr) == ~lpr
RECURSIVE MagDivFrom(_, _, _, _)
\* Limbs i..1 of a divided by k, 0 < k < 2^15, with r carried in from the
\* limbs above: the quotient's limbs and the remainder.
MagDivFrom(a, k, i, r) ==
    IF i = 0 THEN [quot |-> <<>>, rem |-> r]
    ELSE LET cur  == r * LimbBase + a[i]
             rest == MagDivFrom(a, k, i - 1, cur % k)
         IN  [quot |-> Append(rest.quot, cur \div k), rem |-> rest.rem]

\* time.time() when the clock shows t ms, 0 <= t < 2^30: the double nearest
\* to t / 1000 seconds, in units of 2^-75.  The quotient is cut off 75 bits
\* after the point; a remainder makes it odd, so that no tie is seen where
\* there is none.
SecondsOfMs(t) ==
    LET d == MagDivFrom(<<0, 0, 0, 0, 0, t % LimbBase, t \div LimbBase>>,
                        1000, TimeLimbs, 0)
        q == IF d.rem # 0 /\ d.quot[1] % 2 = 0
             THEN [d.quot EXCEPT ![1] = @ + 1] ELSE d.quot
    IN  [neg |-> FALSE, mag |-> RoundToDouble(q)]
\* the integer n, |n| < 2^15, in the units of the clock
ClockOfInt(n) ==
    [neg |-> n < 0,
     mag |-> [i \in 1..TimeLimbs |->
                IF i = TimeLimbs - 1 THEN (IF n < 0 THEN -n ELSE n) ELSE 0]]
\* The local time_of_press: -1, or the reading of the clock at top ms.
TimeOfPress(top) == IF top < 0 THEN ClockOfInt(top) ELSE SecondsOfMs(top)
\* (time.time() - time_of_press) * 1000 on doubles
PressedFor(top, t) ==
    FloatMulInt(1000, FloatSub(SecondsOfMs(t), TimeOfPress(top)))

\* lines 224-225: with DEBUG and time_of_press > 0 the poll evaluates
\* print(...) * 1000.  Where print is a function it returns None, and
\* None * 1000 raises TypeError.  (Where print is a statement the line prints
\* the product, and the run is that of a program with DEBUG False.)
DebugPrint(top) == DEBUG /\ top > 0

\* line 227: the long-press test at time t
LongPressDue(top, t) ==
    /\ top > 0
    /\ FloatLess(ClockOfInt(LONG_PRESS_DURATION), PressedFor(top, t))

(***************************************************************************)
(* PiRadio.__init__ from line 65 on (the main thread).                     *)
(***************************************************************************)
\* lines 66-67: rotator_thread.start()
Init67 ==
    /\ pc["main"] = "l67"
    /\ pc' = [pc EXCEPT !["main"] = "l71", !["rot"] = "l178"]
    /\ UNCHANGED <<prog, ret, exc, stop_requested, DEBUG, locals, btnLocals, env,
                   obsCmds, obsRot, obsBtn, obsPress>>

\* lines 70-71: button_thread.start()
Init71 ==
    /\ pc["main"] = "l71"
    /\ pc' = [pc EXCEPT !["main"] = "l74", !["btn"] = "l208"]
    /\ UNCHANGED <<prog, ret, exc, stop_requested, DEBUG, locals, btnLocals, env,
                   obsCmds, obsRot, obsBtn, obsPress>>

\* line 74: self.led = RgbLed(...)
Init74 ==
    /\ pc["main"] = "l74"
    /\ led' = TRUE
    /\ Goto("main", "l76")
    /\ UNCHANGED <<mode, last_volume, last_track_rotation, playback, ret, exc,
                   stop_requested, DEBUG, locals, btnLocals, env, obsCmds, obsRot,
                   obsBtn, obsPress>>

\* line 76: self.adapt_led()
Init76 ==
    /\ pc["main"] = "l76"
    /\ Goto("main", "l148")
    /\ ret' = [ret EXCEPT !["main"] = "l80"]
    /\ colors' = [colors EXCEPT !["main"] = <<>>]
    /\ f' = [f EXCEPT !["main"] = "unbound"]
    /\ UNCHANGED <<prog, exc, stop_requested, DEBUG, delta, btnLocals, env, obsCmds,
                   obsRot, obsBtn, obsPress>>

\* lines 79-81: KeyboardInterrupt raised in the sleep loop
Interrupt ==
    /\ pc["main"] = "l80"
    /\ Goto("main", "l83")
    /\ UNCHANGED <<prog, ret, exc, stop_requested, DEBUG, locals, btnLocals, env,
                   obsCmds, obsRot, obsBtn, obsPress>>

\* line 83: rotator_thread.stop()
Init83 ==
    /\ pc["main"] = "l83"
    /\ stop_requested' = [stop_requested EXCEPT !["rot"] = TRUE]
    /\ Goto("main", "l84")
    /\ UNCHANGED <<prog, ret, exc, DEBUG, locals, btnLocals, env, obsCmds,
                   obsRot, obsBtn, obsPress>>

\* lines 84-85: button_thread.stop(), print, __init__ returns
Init84 ==
    /\ pc["main"] = "l84"
    /\ stop_requested' = [stop_requested EXCEPT !["btn"] = TRUE]
    /\ Goto("main", "done")
    /\ UNCHANGED <<prog, ret, exc, DEBUG, locals, btnLocals, env, obsCmds,
                   obsRot, obsBtn, obsPress>>

(***************************************************************************)
(* PiRadio.adapt_led, called by the main thread and by the button thread.  *)
(***************************************************************************)
\* line 148: if self.mode == "VOLUME"
AdaptLed148(t) ==
    /\ pc[t] = "l148"
    /\ IF mode = "VOLUME"
       THEN colors' = [colors EXCEPT ![t] = COLOR_VOLUME] /\ Goto(t, "l155")
       ELSE colors' = colors /\ Goto(t, "l150")
    /\ UNCHANGED <<prog, ret, exc, stop_requested, DEBUG, delta, f, btnLocals, env,
                   obsCmds, obsRot, obsBtn, obsPress>>

\* line 150: elif self.mode == "TRACKS"
AdaptLed150(t) ==
    /\ pc[t] = "l150"
    /\ IF mode = "TRACKS"
       THEN colors' = [colors EXCEPT ![t] = COLOR_TRACKS] /\ Goto(t, "l155")
       ELSE colors' = colors /\ Goto(t, "l152")
    /\ UNCHANGED <<prog, ret, exc, stop_requested, DEBUG, delta, f, btnLocals, env,
                   obsCmds, obsRot, obsBtn, obsPress>>

\* line 152: elif self.mode == "OFF" (no else: colors may stay unbound)
AdaptLed152(t) ==
    /\ pc[t] = "l152"
    /\ colors' = IF mode = "OFF" THEN [colors EXCEPT ![t] = COLOR_OFF] ELSE colors
    /\ Goto(t, "l155")
    /\ UNCHANGED <<prog, ret, exc, stop_requested, DEBUG, delta, f, btnLocals, env,
                   obsCmds, obsRot, obsBtn, obsPress>>

\* lines 155-158: f = self.led.set or self.led.fade; self.led may not exist
AdaptLed155(t) ==
    /\ pc[t] = "l155"
    /\ IF led
       THEN f' = [f EXCEPT ![t] = LedMethod(mode)] /\ Goto(t, "l159") /\ exc' = exc
       ELSE f' = f /\ Raise(t, "AttributeError")
    /\ UNCHANGED <<prog, ret, stop_requested, DEBUG, delta, colors, btnLocals, env,
                   obsCmds, obsRot, obsBtn, obsPress>>

\* line 159: f(colors[0], colors[1], colors[2]), then return
AdaptLed159(t) ==
    /\ pc[t] = "l159"
    /\ IF colors[t] = <<>>
       THEN /\ Raise(t, "UnboundLocalError")
            /\ UNCHANGED <<obsCmds, btnCall>>
       ELSE /\ Send(t, Cmd(f[t], colors[t]))
            /\ lastLed' = [op |-> f[t], arg |-> colors[t]]
            /\ lastPlayback' = lastPlayback
            /\ Goto(t, ret[t])
            /\ exc' = exc
            /\ btnCall' = IF t = "btn" THEN [btnCall EXCEPT !.done = TRUE]
                          ELSE btnCall
    /\ UNCHANGED <<prog, ret, stop_requested, DEBUG, locals, btnLocals, env, obsRot,
                   prevBtnCall, callsAfterStop, obsPress>>

(***************************************************************************)
(* RotatorThread.run and PiRadio.rotator_changed (the rotator thread).     *)
(* Statements that touch only what this thread alone reads and writes      *)
(* (delta, last_volume, last_track_rotation) are joined to the next        *)
(* statement that reads or writes something shared.                        *)
(***************************************************************************)
\* line 180: if delta != 0 (faulty variant: every reading is reported)
ReportsAlways(d) == TRUE
Reports(d) == d # 0

\* line 178 (after the sleep of line 182): while not self.stop_requested
RotatorRun178 ==
    /\ pc["rot"] = "l178"
    /\ Goto("rot", IF LoopContinues(stop_requested["rot"]) THEN "l179"
                                                           ELSE "exit")
    /\ UNCHANGED <<prog, ret, exc, stop_requested, DEBUG, locals, btnLocals, env,
                   obsCmds, obsRot, obsBtn, obsPress>>

\* lines 179-182: delta = get_delta(); a non-zero delta calls
\* rotator_changed, a zero goes on to the sleep
RotatorRun179(D, maxRot) ==
    /\ pc["rot"] = "l179"
    /\ \E d \in D \cup {0} :
          /\ readings' = IF d = 0 THEN readings ELSE Append(readings, d)
          /\ IF ~Reports(d)
             THEN /\ Goto("rot", "l178")
                  /\ UNCHANGED <<delta, rotations, callCmds, rotBranch,
                                 old_volume, old_rotation, modesRead,
                                 callsAfterStop, delivered>>
             ELSE /\ rotations < maxRot
                  /\ delivered' = Append(delivered, d)
                  /\ callsAfterStop' = CountAfterStop("rot")
                  /\ rotations' = rotations + 1
                  /\ delta' = d
                  /\ Goto("rot", "l95")
                  /\ callCmds' = [callCmds EXCEPT !["rot"] = <<>>]
                  /\ rotBranch' = "none"
                  /\ old_volume' = last_volume
                  /\ old_rotation' = last_track_rotation
                  /\ modesRead' = <<>>
    /\ UNCHANGED <<prog, ret, exc, stop_requested, DEBUG, colors, f, btnLocals,
                   switch, now, polls, lastPlayback, lastLed, sumDelta,
                   stepFifths, leftRange, btnCall, prevBtnCall, obsPress>>

\* line 95: if self.mode == "VOLUME" (faulty variant: any mode but OFF)
IfNotOff(m) == m # "OFF"
IfVolume(m) == m = "VOLUME"

RotatorChanged95 ==
    /\ pc["rot"] = "l95"
    /\ IF IfVolume(mode)
       THEN rotBranch' = "VOLUME" /\ Goto("rot", "l96")
       ELSE rotBranch' = rotBranch /\ Goto("rot", "l104")
    /\ modesRead' = Append(modesRead, mode)
    /\ UNCHANGED <<prog, ret, exc, stop_requested, DEBUG, locals, btnLocals, env,
                   obsCmds, old_volume, old_rotation, sumDelta, stepFifths,
                   leftRange, readings, delivered, obsBtn, obsPress>>

\* line 96: self.last_volume += (delta * VOLUME_FACTOR)
RotatorChanged96 ==
    /\ pc["rot"] = "l96"
    /\ last_volume' = AddDelta(last_volume, delta)
    /\ Goto("rot", "l98")
    /\ UNCHANGED <<mode, last_track_rotation, led, playback, ret, exc, stop_requested, DEBUG,
                   locals, btnLocals, env, obsCmds, obsRot, obsBtn, obsPress>>

\* lines 98-101: self.last_volume = min(100, max(0, self.last_volume));
\* self.playback.setvol(int(self.last_volume)); return; line 182
RotatorChanged98 ==
    /\ pc["rot"] = "l98"
    /\ last_volume' = Clamp(last_volume)
    /\ Send("rot", Cmd("setvol", <<SetvolArg(Clamp(last_volume))>>))
    /\ Goto("rot", "l178")
    /\ sumDelta' = sumDelta + delta
    /\ stepFifths' = IF stepFifths + delta < 0 THEN 0
                     ELSE IF stepFifths + delta > 500 THEN 500
                     ELSE stepFifths + delta
    /\ leftRange' = (leftRange \/ (5 * INITIAL_VOLUME + sumDelta + delta) \notin 0..500)
    /\ UNCHANGED <<mode, last_track_rotation, led, playback, ret, exc, stop_requested, DEBUG,
                   locals, btnLocals, env, lastPlayback, lastLed, rotBranch,
                   old_volume, old_rotation, modesRead, readings, delivered,
                   obsBtn, obsPress>>

\* line 104: elif self.mode == "TRACKS"; otherwise return; line 182
RotatorChanged104 ==
    /\ pc["rot"] = "l104"
    /\ IF ElifTracks(mode)
       THEN rotBranch' = "TRACKS" /\ Goto("rot", "l105")
       ELSE rotBranch' = "neither" /\ Goto("rot", "l178")
    /\ modesRead' = Append(modesRead, mode)
    /\ UNCHANGED <<prog, ret, exc, stop_requested, DEBUG, locals, btnLocals, env,
                   obsCmds, old_volume, old_rotation, sumDelta, stepFifths,
                   leftRange, readings, delivered, obsBtn, obsPress>>

\* lines 105-116: self.last_track_rotation += delta; past the threshold:
\* previous() or next(), which returns when the player has answered;
\* otherwise return; line 182
RotatorChanged105 ==
    /\ pc["rot"] = "l105"
    /\ LET acc == last_track_rotation + delta
       IN  /\ last_track_rotation' = acc
           /\ IF TrackChange(acc)
              THEN /\ Send("rot", Cmd(TrackCommand(acc), <<>>))
                   /\ Goto("rot", "l117")
              ELSE /\ callCmds' = callCmds
                   /\ Goto("rot", "l178")
    /\ UNCHANGED <<mode, last_volume, led, playback, ret, exc, stop_requested, DEBUG, locals,
                   btnLocals, env, lastPlayback, lastLed, obsRot, obsBtn,
                   obsPress>>

\* line 117: self.last_track_rotation = 0; return; line 182
RotatorChanged117 ==
    /\ pc["rot"] = "l117"
    /\ last_track_rotation' = 0
    /\ Goto("rot", "l178")
    /\ UNCHANGED <<mode, last_volume, led, playback, ret, exc, stop_requested, DEBUG, locals,
                   btnLocals, env, obsCmds, obsRot, obsBtn, obsPress>>

(***************************************************************************)
(* ButtonThread.run and the two button handlers (the button thread).       *)
(* The locals of run (sw_state, last_state, long_press_registered,         *)
(* time_of_press) are this thread's own: the statements on them are joined *)
(* to the read of the switch before them or to the sleep after them.       *)
(***************************************************************************)
\* line 231: time.sleep(0.01); the clock advances
Sleep(S) == \E s \in S : now' = now + s

\* line 231 of the iteration before (for the first iteration, the time the
\* thread takes to start), then line 208: while not self.stop_requested
ButtonRun208(S, maxPolls) ==
    /\ pc["btn"] = "l208"
    /\ Sleep(S)
    /\ IF ~LoopContinues(stop_requested["btn"])
       THEN Goto("btn", "exit") /\ polls' = polls
       ELSE polls < maxPolls /\ polls' = polls + 1 /\ Goto("btn", "l209")
    /\ UNCHANGED <<prog, ret, exc, stop_requested, DEBUG, locals, btnLocals, switch,
                   rotations, obsCmds, obsRot, obsBtn, obsPress>>

\* The entry of a button handler: the observation of the call starts.
EnterHandler(h) ==
    /\ prevBtnCall' = [btnCall EXCEPT !.cmds = callCmds["btn"]]
    /\ btnCall' = [handler |-> h, old_mode |-> mode, new_mode |-> mode,
                   cmds |-> <<>>, done |-> FALSE]
    /\ callCmds' = [callCmds EXCEPT !["btn"] = <<>>]
    /\ callsAfterStop' = CountAfterStop("btn")

\* lines 209-230 up to a handler call, or to the end of the iteration:
\* sw_state = self.switch.get_state() and the edge detection
ButtonRun209 ==
    /\ pc["btn"] = "l209"
    /\ sw_state' = switch
    /\ IF switch # last_state
       THEN IF switch = 0
            THEN \* lines 213-218: released
                 /\ time_of_press' = -1
                 /\ IF ReleaseCounts(long_press_registered)
                    THEN /\ EnterHandler("released")
                         /\ releaseEvent' = "released"
                         /\ relSinceRise' = relSinceRise + 1
                         /\ Goto("btn", "l123")
                         /\ UNCHANGED <<exc, long_press_registered, last_state>>
                    ELSE \* lines 218, 222
                         /\ long_press_registered' = FALSE
                         /\ last_state' = switch
                         /\ releaseEvent' = "suppressed"
                         /\ Goto("btn", "l208")
                         /\ UNCHANGED <<exc, callCmds, obsBtn, relSinceRise>>
                 /\ UNCHANGED <<risingAt, lpSinceRise, lpSincePress>>
            ELSE \* lines 221, 222: pressed
                 /\ time_of_press' = now
                 /\ risingAt' = now
                 /\ lpSinceRise' = 0
                 /\ relSinceRise' = 0
                 /\ last_state' = switch
                 /\ Goto("btn", "l208")
                 /\ UNCHANGED <<exc, long_press_registered, callCmds, obsBtn,
                                releaseEvent, lpSincePress>>
       ELSE IF switch = 1 /\ DebugPrint(time_of_press)
            THEN \* line 225: the product of print's result and 1000
                 /\ Raise("btn", "TypeError")
                 /\ UNCHANGED <<time_of_press, long_press_registered,
                                last_state, callCmds, obsBtn, releaseEvent,
                                risingAt, lpSinceRise, relSinceRise,
                                lpSincePress>>
       ELSE IF switch = 1 /\ LongPressDue(time_of_press, now)
            THEN \* lines 227-228
                 /\ EnterHandler("long_press")
                 /\ lpSinceRise' = lpSinceRise + 1
                 /\ lpSincePress' = lpSincePress + 1
                 /\ Goto("btn", "l135")
                 /\ UNCHANGED <<exc, time_of_press, long_press_registered,
                                last_state, releaseEvent, risingAt,
                                relSinceRise>>
            ELSE \* nothing to do; a release that no poll saw pressed is
                 \* never noticed
                 /\ Goto("btn", "l208")
                 /\ releaseEvent' = IF switch = 0 /\ releaseEvent = "pending"
                                    THEN "missed" ELSE releaseEvent
                 /\ UNCHANGED <<exc, time_of_press, long_press_registered,
                                last_state, callCmds, obsBtn, risingAt,
                                lpSinceRise, relSinceRise, lpSincePress>>
    /\ UNCHANGED <<prog, ret, stop_requested, DEBUG, locals, env, lastPlayback,
                   lastLed, obsRot>>

\* lines 123-131: button_released sets the mode and calls adapt_led
ButtonReleased123 ==
    /\ pc["btn"] = "l123"
    /\ mode' = ReleasedMode(mode)
    /\ btnCall' = [btnCall EXCEPT !.new_mode = ReleasedMode(mode)]
    /\ Goto("btn", "l148")
    /\ ret' = [ret EXCEPT !["btn"] = "l222"]
    /\ colors' = [colors EXCEPT !["btn"] = <<>>]
    /\ f' = [f EXCEPT !["btn"] = "unbound"]
    /\ UNCHANGED <<last_volume, last_track_rotation, led, playback, exc, stop_requested, DEBUG,
                   delta, btnLocals, env, obsCmds, obsRot, prevBtnCall,
                   callsAfterStop, obsPress>>

\* lines 135-141: button_long_press sets the mode
ButtonLongPress135 ==
    /\ pc["btn"] = "l135"
    /\ mode' = LongPressMode(mode)
    /\ btnCall' = [btnCall EXCEPT !.new_mode = LongPressMode(mode)]
    /\ Goto("btn", IF mode = "OFF" THEN "l139" ELSE "l144")
    /\ UNCHANGED <<last_volume, last_track_rotation, led, playback, ret, exc,
                   stop_requested, DEBUG, locals, btnLocals, env, obsCmds, obsRot,
                   prevBtnCall, callsAfterStop, obsPress>>

\* lines 139 / 144, then 145: play() or stop(), then adapt_led is called
ButtonLongPress139 ==
    /\ pc["btn"] \in {"l139", "l144"}
    /\ LET c == LongPressCommand(btnCall.old_mode)
       IN  /\ Send("btn", Cmd(c, <<>>))
           /\ lastPlayback' = c
    /\ Goto("btn", "l148")
    /\ ret' = [ret EXCEPT !["btn"] = "l229"]
    /\ colors' = [colors EXCEPT !["btn"] = <<>>]
    /\ f' = [f EXCEPT !["btn"] = "unbound"]
    /\ UNCHANGED <<prog, exc, stop_requested, DEBUG, delta, btnLocals, env, lastLed,
                   obsRot, obsBtn, obsPress>>

\* line 222: last_state = sw_state
ButtonRun222 ==
    /\ pc["btn"] = "l222"
    /\ last_state' = sw_state
    /\ Goto("btn", "l208")
    /\ UNCHANGED <<prog, ret, exc, stop_requested, DEBUG, locals, sw_state,
                   long_press_registered, time_of_press, env, obsCmds, obsRot,
                   obsBtn, obsPress>>

\* lines 229-230: long_press_registered = True; time_of_press = -1
ButtonRun229 ==
    /\ pc["btn"] = "l229"
    /\ long_press_registered' = TRUE
    /\ time_of_press' = -1
    /\ Goto("btn", "l208")
    /\ UNCHANGED <<prog, ret, exc, stop_requested, DEBUG, locals, sw_state,
                   last_state, env, obsCmds, obsRot, obsBtn, obsPress>>

(***************************************************************************)
(* The environment: the user presses and releases the button.              *)
(***************************************************************************)
\* The user acts while the button thread can still read the switch (later
\* presses change nothing the program sees).
Watching(maxPolls) ==
    \/ pc["btn"] \in {"unstarted", "l209"}
    \/ pc["btn"] \notin {"exit", "raised"} /\ polls < maxPolls

Press(maxPolls) ==
    /\ Watching(maxPolls)
    /\ switch = 0
    /\ switch' = 1
    /\ lpSincePress' = 0
    /\ releaseEvent' = "none"
    /\ UNCHANGED <<prog, ctrl, DEBUG, locals, btnLocals, now, rotations, polls,
                   obsCmds, obsRot, obsBtn, risingAt, lpSinceRise,
                   relSinceRise>>

Release(maxPolls) ==
    /\ Watching(maxPolls)
    /\ switch = 1
    /\ switch' = 0
    /\ releaseEvent' = "pending"
    /\ UNCHANGED <<prog, ctrl, DEBUG, locals, btnLocals, now, rotations, polls,
                   obsCmds, obsRot, obsBtn, lpSincePress, risingAt,
                   lpSinceRise, relSinceRise>>

(***************************************************************************)
(* A command that the player or the LED rejects: the call raises, nothing  *)
(* in the file catches it in a poller thread (and line 76 lies before the  *)
(* try of line 78), so the exception ends the thread that made the call.   *)
(***************************************************************************)
\* line 101: setvol raises, after the assignment of line 98
RotatorChanged98Fails ==
    /\ pc["rot"] = "l98"
    /\ last_volume' = Clamp(last_volume)
    /\ Raise("rot", "CommandError")
    /\ UNCHANGED <<mode, last_track_rotation, led, playback, ret,
                   stop_requested, DEBUG, locals, btnLocals, env, obsCmds, obsRot,
                   obsBtn, obsPress>>

\* lines 110 / 114: previous() or next() raises, after the addition of
\* line 105 and before the reset of line 117
RotatorChanged105Fails ==
    /\ pc["rot"] = "l105"
    /\ TrackChange(last_track_rotation + delta)
    /\ last_track_rotation' = last_track_rotation + delta
    /\ Raise("rot", "CommandError")
    /\ UNCHANGED <<mode, last_volume, led, playback, ret, stop_requested, DEBUG,
                   locals, btnLocals, env, obsCmds, obsRot, obsBtn, obsPress>>

\* lines 139 / 144: play() or stop() raises; adapt_led is not called
ButtonLongPress139Fails ==
    /\ pc["btn"] \in {"l139", "l144"}
    /\ Raise("btn", "CommandError")
    /\ UNCHANGED <<prog, ret, stop_requested, DEBUG, locals, btnLocals, env,
                   obsCmds, obsRot, obsBtn, obsPress>>

\* line 159: the LED call raises
AdaptLed159Fails(t) ==
    /\ pc[t] = "l159"
    /\ colors[t] # <<>>
    /\ Raise(t, "IOError")
    /\ UNCHANGED <<prog, ret, stop_requested, DEBUG, locals, btnLocals, env,
                   obsCmds, obsRot, obsBtn, obsPress>>

Startup == Init67 \/ Init71 \/ Init74 \/ Init76
Shutdown == Interrupt \/ Init83 \/ Init84
AdaptLed(t) ==
    AdaptLed148(t) \/ AdaptLed150(t) \/ AdaptLed152(t) \/ AdaptLed155(t)
    \/ AdaptLed159(t)
Rotator(D, maxRot) ==
    RotatorRun178 \/ RotatorRun179(D, maxRot) \/ RotatorChanged95
    \/ RotatorChanged96 \/ RotatorChanged98 \/ RotatorChanged104
    \/ RotatorChanged105 \/ RotatorChanged117
Button(S, maxPolls) ==
    ButtonRun208(S, maxPolls) \/ ButtonRun209 \/ ButtonReleased123
    \/ ButtonLongPress135 \/ ButtonLongPress139 \/ ButtonRun222
    \/ ButtonRun229
Program(D, maxRot, S, maxPolls) ==
    \/ Startup
    \/ AdaptLed("main") \/ AdaptLed("btn")
    \/ Rotator(D, maxRot)
    \/ Button(S, maxPolls)
\* The program when the encoder is never turned: rotator_changed is not called.
ProgramAtRest(S, maxPolls) ==
    \/ Startup
    \/ AdaptLed("main") \/ AdaptLed("btn")
    \/ RotatorRun178 \/ RotatorRun179({}, 0)
    \/ Button(S, maxPolls)

\* The whole program with both inputs and the interrupt.
Next ==
    \/ Program(Deltas, MaxRotations, SleepMs, MaxPolls)
    \/ Shutdown
    \/ Press(MaxPolls) \/ Release(MaxPolls)
Spec == Init /\ [][Next]_vars

\* The whole program under fair scheduling: a poller thread that can take a
\* step eventually takes one (the interpreter switches threads, and the
\* sleeps of lines 182 and 231 end).  The user and the interrupt are not
\* obliged to do anything.
NextStop ==
    \/ Program(FairDeltas, FairMaxRotations, SleepMs, FairMaxPolls)
    \/ Shutdown
    \/ Press(FairMaxPolls) \/ Release(FairMaxPolls)
\* The rotator thread is scheduled fairly.  At most one of its steps is
\* enabled at a time; the step of line 96 is enabled exactly when the thread
\* is at line 96, and is named here by the move it makes.
RotatorFair ==
    /\ WF_vars(\/ RotatorRun178 \/ RotatorRun179(FairDeltas, FairMaxRotations)
               \/ RotatorChanged95 \/ RotatorChanged98
               \/ RotatorChanged104 \/ RotatorChanged105
               \/ RotatorChanged117)
    /\ WF_pc(pc["rot"] = "l96" /\ pc' = [pc EXCEPT !["rot"] = "l98"])
\* The button thread is scheduled fairly.  The step of line 209 is enabled
\* exactly when the thread is at line 209, and is named by the move it makes.
ButtonFair ==
    /\ WF_vars(\/ ButtonRun208(SleepMs, FairMaxPolls) \/ ButtonReleased123
               \/ ButtonLongPress135 \/ ButtonLongPress139 \/ ButtonRun222
               \/ ButtonRun229 \/ AdaptLed("btn"))
    /\ WF_pc(/\ pc["btn"] = "l209"
             /\ \E l \in {"l123", "l135", "l208", "raised"} :
                   pc' = [pc EXCEPT !["btn"] = l])
SpecFair == Init /\ [][NextStop]_vars /\ RotatorFair /\ ButtonFair

\* The whole program where the player and the LED may reject a command.
CommandFails ==
    \/ RotatorChanged98Fails \/ RotatorChanged105Fails
    \/ ButtonLongPress139Fails
    \/ AdaptLed159Fails("main") \/ AdaptLed159Fails("btn")
NextFail ==
    \/ Program(Deltas, MaxRotations, SleepMs, MaxPolls)
    \/ CommandFails
    \/ Shutdown
    \/ Press(MaxPolls) \/ Release(MaxPolls)
SpecFail == Init /\ [][NextFail]_vars

\* The program started without the argument debug.
InitPlain == Init /\ ~DEBUG
\* Many encoder readings; the program is started without the argument debug
\* (rotator_changed reads DEBUG only to print) and is not interrupted.
NextRotate ==
    \/ Program(RotateDeltas, RotateMaxRotations, RotateSleepMs, RotateMaxPolls)
    \/ Press(RotateMaxPolls) \/ Release(RotateMaxPolls)
SpecRotate == InitPlain /\ [][NextRotate]_vars

\* Enough polls of the button to switch the radio off and on again after a
\* turn of the encoder.
NextFrame ==
    \/ Program(FrameDeltas, MaxRotations, SleepMs, FrameMaxPolls)
    \/ Press(FrameMaxPolls) \/ Release(FrameMaxPolls)
SpecFrame == Init /\ [][NextFrame]_vars

\* Many polls of the button; the encoder is not turned and the process is
\* not interrupted.
NextButton ==
    \/ ProgramAtRest(ButtonSleepMs, ButtonMaxPolls)
    \/ Press(ButtonMaxPolls) \/ Release(ButtonMaxPolls)
SpecButton == Init /\ [][NextButton]_vars

(***************************************************************************)
(* Properties.                                                             *)
(***************************************************************************)
PlayerCmds(log) == SelectSeq(log, LAMBDA c : c.op \in PlayerOps)
LedCmds(log) == SelectSeq(log, LAMBDA c : c.op \in LedOps)
Ops(log) == [i \in DOMAIN log |-> log[i].op]
\* The rotator thread is between two calls of rotator_changed.
RotatorCallOver ==
    pc["rot"] \in {"l178", "l179", "exit"} /\ rotBranch # "none"
\* The button thread has left its handler (returned from it, or raised in it).
ButtonCallOver ==
    btnCall.handler # "none" /\ pc["btn"] \in {"l222", "l229", "l208", "l209", "exit", "raised"}
\* The indicator command that belongs to mode m.
IndicatorFor(m) ==
    IF m = "OFF" THEN [op |-> "set", arg |-> <<0, 0, 0>>]
    ELSE IF m = "VOLUME" THEN [op |-> "fade", arg |-> <<100, 0, 0>>]
    ELSE [op |-> "fade", arg |-> <<0, 100, 0>>]
\* 2^-25 in units of 2^-55
Tolerance == [MagZero EXCEPT ![3] = 1]
\* The double v (v >= 0) is within 2^-25 / 5 of n / 5.
NearFifths(v, n) ==
    LET a == MagMul(v.mag, 5)
        b == FloatOfInt(n).mag
        d == IF MagLess(a, b) THEN MagSub(b, a) ELSE MagSub(a, b)
    IN  ~v.neg /\ MagLess(d, Tolerance)
ClampFifths(n) == IF n < 0 THEN 0 ELSE IF n > 500 THEN 500 ELSE n

\* C1 (as claimed; the code takes no lock): the handlers are atomic relative
\* to each other; in particular the rotator thread sends no SetVolume, Next
\* or Previous while Mode is OFF after the long press that set it has sent
\* Stop.
C1_NoCommandWhileOff ==
    \A i \in DOMAIN callCmds["rot"] :
        ~(callCmds["rot"][i].mode = "OFF" /\ callCmds["rot"][i].playback = "stop")

\* C2: between the calls of the handlers the stored volume lies in [0, 100],
\* every argument of SetVolume lies in 0..100, and the rotator thread raises
\* nothing.
C2_VolumeInRange ==
    /\ pc["rot"] # "l98" =>
          /\ ~FloatLess(last_volume, FloatZero)
          /\ ~FloatLess(FloatHundred, last_volume)
    /\ \A t \in Threads : \A i \in DOMAIN callCmds[t] :
          callCmds[t][i].op = "setvol" => callCmds[t][i].arg[1] \in 0..100
    /\ pc["rot"] # "raised" /\ exc["rot"] = "none"
\* C2 witness: a reading of +499 in VOLUME mode was clamped to 100.
C2_Witness ==
    /\ RotatorCallOver /\ rotBranch = "VOLUME" /\ delta = 499
    /\ last_volume = FloatHundred
    /\ Ops(callCmds["rot"]) = <<"setvol">> /\ callCmds["rot"][1].arg = <<100>>

\* C3 (as claimed): after the VOLUME-mode calls so far the volume is the
\* clamp of initial + (sum of all deltas) * VOLUME_FACTOR.
C3_ClampOfTotal ==
    (RotatorCallOver /\ rotBranch = "VOLUME") =>
        NearFifths(last_volume, ClampFifths(5 * INITIAL_VOLUME + sumDelta))
\* C3 (amended): the volume is clamped at every call: it is the step-by-step
\* value v' = clamp(v + delta * VOLUME_FACTOR, 0, 100) (up to the rounding of
\* doubles).  While no partial sum has left [0, 100] that value is the clamp
\* of the total; once one has, it may differ from the clamp of the total
\* (80, -500, +20 gives 4, not 0) or agree with it (80, +499 gives 100).
C3_ClampOfEachStep ==
    (RotatorCallOver /\ rotBranch = "VOLUME") =>
        /\ NearFifths(last_volume, stepFifths)
        /\ ~leftRange => stepFifths = ClampFifths(5 * INITIAL_VOLUME + sumDelta)
\* C3 witness: a partial sum left the range, and the volume after the calls
\* is not the clamp of the total.
C3_Witness ==
    /\ RotatorCallOver /\ rotBranch = "VOLUME" /\ leftRange
    /\ stepFifths # ClampFifths(5 * INITIAL_VOLUME + sumDelta)

\* The VOLUME branch of a finished call sent exactly SetVolume(n), and the
\* stored volume is the clamped sum.
VolumeCallSent(n) ==
    /\ Ops(callCmds["rot"]) = <<"setvol">>
    /\ callCmds["rot"][1].arg = <<n>>
    /\ last_volume = Clamp(AddDelta(old_volume, delta))
\* The argument of the first command of the rotator's current call.
SentArg == callCmds["rot"][1].arg[1]
\* C4 (as claimed): a call in VOLUME mode sends exactly one SetVolume, whose
\* argument is the new volume rounded to the nearest integer.
C4_ArgumentRounded ==
    (RotatorCallOver /\ rotBranch = "VOLUME") =>
        /\ Ops(callCmds["rot"]) = <<"setvol">>
        /\ LET n == SentArg
           IN
            /\ n \in 0..100
            /\ VolumeCallSent(n)
            /\ ~MagLess(FloatOfInt(2 * n + 1).mag, MagMul(last_volume.mag, 2))
            /\ n > 0 => ~MagLess(MagMul(last_volume.mag, 2), FloatOfInt(2 * n - 1).mag)
\* C4 (amended): a call in VOLUME mode sends exactly one SetVolume (also when
\* the integer did not change) and nothing else; its argument is the new
\* clamped volume truncated to an integer: n <= volume' < n + 1.
C4_ArgumentTruncated ==
    (RotatorCallOver /\ rotBranch = "VOLUME") =>
        /\ Ops(callCmds["rot"]) = <<"setvol">>
        /\ LET n == SentArg
           IN
            /\ n \in 0..100
            /\ VolumeCallSent(n)
            /\ ~FloatLess(last_volume, FloatOfInt(n))
            /\ FloatLess(last_volume, FloatOfInt(n + 1))
\* C4 witness: a call left the volume nearer to the next integer (99.8) and
\* sent SetVolume with the integer part (99).
C4_Witness ==
    /\ RotatorCallOver /\ rotBranch = "VOLUME"
    /\ old_volume # last_volume
    /\ Ops(callCmds["rot"]) = <<"setvol">>
    /\ SentArg = IntOfFloat(last_volume)
    /\ MagLess(FloatOfInt(2 * SentArg + 1).mag, MagMul(last_volume.mag, 2))

\* C5: a call in TRACKS mode with acc' = acc + delta sends exactly one
\* Previous (acc' < 0) or Next when |acc'| > 20 and leaves the accumulator 0;
\* otherwise it sends nothing and stores acc'.  So |acc| <= 20 after a call.
C5_TrackThreshold ==
    /\ (RotatorCallOver /\ rotBranch = "TRACKS") =>
          LET acc == old_rotation + delta
          IN  IF acc > 20 \/ acc < -20
              THEN /\ Ops(callCmds["rot"]) = <<IF acc < 0 THEN "previous" ELSE "next">>
                   /\ last_track_rotation = 0
              ELSE /\ callCmds["rot"] = <<>>
                   /\ last_track_rotation = acc
    /\ pc["rot"] # "l117" => last_track_rotation \in -20..20
\* C5 witness: the accumulator reached exactly 20 and no command was sent.
C5_Witness ==
    /\ RotatorCallOver /\ rotBranch = "TRACKS"
    /\ delta = 20 /\ last_track_rotation = 20 /\ callCmds["rot"] = <<>>

\* C6: button_released maps VOLUME to TRACKS, TRACKS and OFF to VOLUME and
\* sends no player command; after a release in OFF the last Play/Stop is Stop.
C6_Released ==
    (btnCall.handler = "released" /\ pc["btn"] # "l123") =>
        /\ btnCall.old_mode = "VOLUME" => mode = "TRACKS"
        /\ btnCall.old_mode = "TRACKS" => mode = "VOLUME"
        /\ btnCall.old_mode = "OFF" => mode = "VOLUME" /\ lastPlayback = "stop"
        /\ PlayerCmds(callCmds["btn"]) = <<>>
\* C6 witness: a release in OFF has returned: Mode is VOLUME, the player
\* is stopped.
C6_Witness ==
    /\ btnCall.handler = "released" /\ btnCall.done
    /\ btnCall.old_mode = "OFF" /\ mode = "VOLUME" /\ lastPlayback = "stop"

\* C7: button_long_press in OFF sets VOLUME and sends one Play, otherwise it
\* sets OFF and sends one Stop; the player command precedes the indicator
\* command; two long presses in a row from VOLUME send Stop, then Play, and
\* end in VOLUME.
C7_LongPress ==
    (btnCall.handler = "long_press" /\ pc["btn"] \notin {"l135", "l139", "l144"}) =>
        /\ mode = (IF btnCall.old_mode = "OFF" THEN "VOLUME" ELSE "OFF")
        /\ Ops(PlayerCmds(callCmds["btn"]))
              = <<IF btnCall.old_mode = "OFF" THEN "play" ELSE "stop">>
        /\ callCmds["btn"][1].op \in PlayerOps
        /\ (prevBtnCall.handler = "long_press" /\ prevBtnCall.old_mode = "VOLUME") =>
              /\ mode = "VOLUME"
              /\ Ops(PlayerCmds(prevBtnCall.cmds)) = <<"stop">>
              /\ Ops(PlayerCmds(callCmds["btn"])) = <<"play">>
\* C7 witness: the second of two long presses in a row from VOLUME returned.
C7_Witness ==
    /\ btnCall.handler = "long_press" /\ btnCall.done
    /\ prevBtnCall.handler = "long_press" /\ prevBtnCall.old_mode = "VOLUME"
    /\ Ops(callCmds["btn"]) = <<"play", "fade">>

\* C8 (as claimed; it fails before the LED exists and without a lock): set
\* is only sent with black and fade never with black, and every button
\* handler ends with exactly one indicator command, the one of the mode it
\* set.
C8_IndicatorCommand ==
    /\ \A t \in Threads : \A i \in DOMAIN callCmds[t] :
          /\ callCmds[t][i].op = "set" => callCmds[t][i].arg = <<0, 0, 0>>
          /\ callCmds[t][i].op = "fade" => callCmds[t][i].arg # <<0, 0, 0>>
    /\ ButtonCallOver =>
          /\ Len(LedCmds(callCmds["btn"])) = 1
          /\ LET c == callCmds["btn"][Len(callCmds["btn"])]
             IN  [op |-> c.op, arg |-> c.arg] = IndicatorFor(mode)

\* C9 (as claimed, the press timed by the poller from the poll that saw the
\* rising edge; a debug run ends the button thread at line 225 instead): once
\* a poll has found the button still down and the time since that poll, as
\* line 227 measures it, above 1200 ms, button_long_press has been called
\* exactly once for the press, never again while it lasts; the release of
\* a press with a long press does not call button_released; and after a
\* release the poller is back in its initial state.
C9_LongPressOnce ==
    /\ lpSinceRise <= 1
    /\ (pc["btn"] \in {"l208", "raised"} /\ sw_state = 1 /\ last_state = 1
           /\ LongPressDue(risingAt, now)) => lpSinceRise = 1
    /\ pc["btn"] = "l123" => lpSinceRise = 0
    /\ (pc["btn"] = "l208" /\ last_state = 0) =>
          ~long_press_registered /\ time_of_press = -1

\* C10: Mode is one of VOLUME, TRACKS, OFF, starts as VOLUME, and changes
\* only in a step of button_released or button_long_press, never in a step
\* of rotator_changed.
C10_ModeOnlyByButton ==
    /\ mode = "VOLUME"
    /\ [](mode \in {"VOLUME", "TRACKS", "OFF"})
    /\ [][mode' # mode => (pc["btn"] \in {"l123", "l135"} /\ pc'["btn"] # pc["btn"])]_vars
\* C10 witness: a call of rotator_changed and a call of button_long_press
\* have both returned; the mode is the one the long press set.
C10_Witness ==
    /\ RotatorCallOver /\ rotBranch = "VOLUME"
    /\ btnCall.handler = "long_press" /\ btnCall.done /\ mode = "OFF"

\* C11: a call of rotator_changed whose two mode tests (lines 95 and 104)
\* both read OFF sends no player and no LED command and leaves the volume
\* and the track-rotation accumulator as they were, whatever the delta; and
\* no step of the two mode tests changes the mode or the LED.
C11_OffNoOp ==
    /\ [](RotatorCallOver /\ modesRead = <<"OFF", "OFF">> =>
            /\ callCmds["rot"] = <<>>
            /\ last_volume = old_volume
            /\ last_track_rotation = old_rotation)
    /\ [][(pc["rot"] \in {"l95", "l104"} /\ pc'["rot"] # pc["rot"]) =>
             (mode' = mode /\ lastLed' = lastLed /\ callCmds' = callCmds)]_vars
\* C11 witness: a call with a delta of -500 found the mode OFF and returned.
C11_Witness ==
    /\ RotatorCallOver /\ modesRead = <<"OFF", "OFF">>
    /\ delta = -500 /\ mode = "OFF"

\* C12 (as claimed; the code joins no thread and never closes the
\* connection): when the shutdown path has completed (line 85, "Threads
\* shut down"), both poller loops have exited and the connection to the
\* player is closed, so no poller calls a handler afterwards.
C12_ShutdownWaits ==
    pc["main"] = "done" =>
        /\ pc["rot"] \in {"exit", "raised"}
        /\ pc["btn"] \in {"exit", "raised"}
        /\ playback = "closed"

\* C13 (as claimed; the code lets the other threads run on): a command that
\* fails in a handler ends everything at once: no thread sends a command
\* after a command has failed, and once a poller has failed the other
\* poller and the main thread have stopped.
C13_FailureStopsAll ==
    /\ \A t \in Threads : \A i \in DOMAIN callCmds[t] :
          ~callCmds[t][i].afterFailure
    /\ (Failed("rot") /\ Failed("btn")) => pc["main"] \in {"done", "raised"}

\* C14 (as claimed): every physical press and release is noticed: the poll
\* after the release calls button_released when no long press was called
\* during the physical press, and calls nothing when exactly one was.
C14_PhysicalCycle ==
    /\ releaseEvent # "missed"
    /\ releaseEvent \in {"released", "suppressed"} =>
          IF lpSincePress = 0 THEN releaseEvent = "released"
          ELSE lpSincePress = 1 /\ releaseEvent = "suppressed"
\* C14 (amended): the cycles are those the poller observes, from the poll
\* that reads the button down after reading it up to the poll that reads it
\* up again.  Such a cycle calls exactly one handler: button_released at
\* the poll of the falling edge when no long press was called since the
\* rising edge, otherwise the one long press and no button_released.
C14_ObservedCycle ==
    /\ lpSinceRise + relSinceRise <= 1
    /\ releaseEvent = "released" =>
          relSinceRise = 1 /\ lpSinceRise = 0 /\ btnCall.handler = "released"
    /\ releaseEvent = "suppressed" => lpSinceRise = 1 /\ relSinceRise = 0
    /\ pc["btn"] = "l123" => sw_state = 0 /\ last_state = 1
\* C14 witness: a press that was seen and released before 1200 ms called
\* button_released, which returned; long presses happened before it.
C14_Witness ==
    /\ releaseEvent = "released" /\ relSinceRise = 1 /\ btnCall.done
    /\ pc["btn"] = "l208" /\ now - risingAt < LONG_PRESS_DURATION
    /\ prevBtnCall.handler = "long_press"

\* C15: once stop was requested on a poller, the poller leaves its loop
\* (under fair scheduling; a handler call that raises, or line 225 in a
\* debug run, ends the thread as well); it begins at most one handler call
\* after the request, although the encoder and the button of SpecFair offer
\* it two; and a poller only exits when its own stop was requested.
C15_StopExits ==
    /\ [](\A t \in {"rot", "btn"} :
            /\ callsAfterStop[t] <= 1
            /\ pc[t] = "exit" => stop_requested[t])
    /\ \A t \in {"rot", "btn"} :
          stop_requested[t] ~> pc[t] \in {"exit", "raised"}
\* C15 witness: both pollers have exited; each of them began one handler
\* call after its stop was requested (the rotator between its test of
\* line 178 and the call of line 181).
C15_Witness ==
    /\ pc["rot"] = "exit" /\ pc["btn"] = "exit"
    /\ callsAfterStop["btn"] = 1 /\ btnCall.done
    /\ callsAfterStop["rot"] = 1

RECURSIVE SumSeq(_)
SumSeq(s) == IF s = <<>> THEN 0 ELSE Head(s) + SumSeq(Tail(s))

\* C16: the rotator's loop calls rotator_changed once for every non-zero
\* value get_delta returned, with that value and in the order read, and never
\* for a zero; the deltas delivered add up to the deltas read.
C16_OnePerReading ==
    /\ delivered = readings
    /\ \A i \in 1..Len(delivered) : delivered[i] # 0
    /\ SumSeq(delivered) = SumSeq(readings)
    /\ delivered # <<>> => delta = delivered[Len(delivered)]
\* C16 witness: two readings of different sign were delivered in order and
\* the second call has returned.
C16_Witness ==
    /\ readings = <<20, -500>> /\ delivered = <<20, -500>>
    /\ RotatorCallOver /\ delta = -500

\* C17: only rotator_changed changes the volume, and only in a call whose
\* test of line 95 read VOLUME; only rotator_changed changes the accumulator,
\* and only in a call whose test of line 104 read TRACKS; no step of
\* button_released, button_long_press or adapt_led changes either.  So the
\* accumulator a TRACKS call starts from is the one the last TRACKS call
\* left, whatever modes were entered in between.
C17_Frame ==
    [][/\ (last_volume' # last_volume) =>
            (pc["rot"] \in {"l96", "l98"} /\ modesRead = <<"VOLUME">>)
       /\ (last_track_rotation' # last_track_rotation) =>
            (pc["rot"] \in {"l105", "l117"} /\ Len(modesRead) = 2
                                            /\ modesRead[2] = "TRACKS")
       /\ (pc'["btn"] # pc["btn"] \/ pc'["main"] # pc["main"]) =>
            (last_volume' = last_volume
                /\ last_track_rotation' = last_track_rotation)]_vars
\* C17 witness: a turn in VOLUME mode changed the volume; a long press then
\* switched the radio off and the next long press switched it on again, and
\* the volume is still the one the turn left.
C17_Witness ==
    /\ RotatorCallOver /\ rotBranch = "VOLUME"
    /\ last_volume # FloatOfInt(INITIAL_VOLUME)
    /\ prevBtnCall.handler = "long_press" /\ prevBtnCall.new_mode = "OFF"
    /\ btnCall.handler = "long_press" /\ btnCall.old_mode = "OFF"
    /\ btnCall.done
    /\ mode = "VOLUME" /\ last_track_rotation = 0

\* C18 (as claimed; the button thread is started at line 71, the LED is
\* created at line 74): whenever the button thread is inside adapt_led,
\* called by button_released or button_long_press, self.led exists, and the
\* button thread never ends with an AttributeError.
C18_LedBeforeEvents ==
    /\ pc["btn"] \in {"l148", "l150", "l152", "l155", "l159"} => led
    /\ exc["btn"] # "AttributeError"

\* C19 (as claimed; adapt_led takes no lock): once the adapt_led of line 76
\* has returned, whenever the button thread is in no handler and no adapt_led
\* the last LED command is the one of the current mode.
C19_IndicatorFollowsMode ==
    (/\ pc["main"] \in {"l80", "l83", "l84", "done"}
     /\ pc["btn"] \in {"unstarted", "l208", "l209", "l222", "l229", "exit"}) =>
        lastLed = IndicatorFor(mode)

\* C20: whenever Mode is OFF and the button thread is in no handler, the last
\* play() or stop() sent to the player is stop().
C20_OffMeansStopped ==
    (/\ mode = "OFF"
     /\ pc["btn"] \in {"unstarted", "l208", "l209", "l222", "l229", "exit",
                        "raised"}) =>
        lastPlayback = "stop"
\* C20 witness: a release changed VOLUME to TRACKS, the long press that
\* followed set OFF and has returned, and the last command was stop().
C20_Witness ==
    /\ mode = "OFF" /\ pc["btn"] = "l208" /\ lastPlayback = "stop"
    /\ btnCall.handler = "long_press" /\ btnCall.old_mode = "TRACKS"
    /\ btnCall.done /\ prevBtnCall.handler = "released"

====
